---- MODULE Spec2Model ----
(***************************************************************************)
(* Model of the Carnatic raga detector: the Melakarta rule engine          *)
(* (generate_melakartas.py) and the analysis pipeline (raga_detector.py).  *)
(***************************************************************************)
EXTENDS Integers, Sequences, FiniteSets, TLC

VARIABLES
    raga_number,   \* argument of the last get_melakarta_structure call
    outcome,       \* how that call ended: "none" before any call, else "returned"
    structure,     \* the value it returned
    gen_i,         \* loop variable of generate_all_melakartas
    melakartas,    \* dictionary built by generate_all_melakartas
    pc,            \* position of the running call of the detector
    f0,            \* pitch contour of extract_pitch, one entry per frame
    f0_clean,      \* its voiced frames
    tonic_hz,      \* tonic passed to extract_swara_distribution
    tonic_outcome, \* how the last find_tonic call ended
    swara_dist,    \* 12-bin distribution, counts over their sum
    base_dist,     \* distribution of the samples before they were doubled
    matches,       \* ranking returned by match_raga
    calls,         \* methods of RagaDetector executed so far, in order
    result         \* value returned by analyze

melaVars == <<raga_number, outcome, structure, gen_i, melakartas>>

detVars == <<pc, f0, f0_clean, tonic_hz, tonic_outcome, swara_dist, base_dist,
             matches, calls, result>>

vars == <<raga_number, outcome, structure, gen_i, melakartas,
          pc, f0, f0_clean, tonic_hz, tonic_outcome, swara_dist, base_dist,
          matches, calls, result>>

\* ------------------------------------------------------------------------
\* Bounds
\* ------------------------------------------------------------------------

\* how far outside 1..72 the rule engine is called
Margin == 3

\* longest sample sequence handed to the projector and to find_tonic
MaxSamples == 2

\* sample pitches are 0, 50, ..., 50 * MaxPitchStep cents above the reference
MaxPitchStep == 24

\* tonics are 0, 25, ..., 25 * MaxTonicStep cents above the reference
MaxTonicStep == 4

\* largest common weight of an observed equal-weight distribution
MaxWeight == 2

\* longest pitch contour produced by extract_pitch
MaxFrames == 2

\* ------------------------------------------------------------------------
\* generate_melakartas.py
\* ------------------------------------------------------------------------

NumMelakartas == 72

HalfMelakartas == 36

MELAKARTA_NAMES ==
    << "Kanakangi", "Ratnangi", "Ganamurti", "Vanaspati", "Manavati", "Tanarupi",
       "Senavati", "Hanumattodi", "Dhenuka", "Natakapriya", "Kokilapriya", "Rupavati",
       "Gayakapriya", "Vakulabharanam", "Mayamalavagowla", "Chakravakam", "Suryakantam", "Hatakambari",
       "Jhankaradhwani", "Natabhairavi", "Kiravani", "Kharaharapriya", "Gourimanohari", "Varunapriya",
       "Mararanjani", "Charukesi", "Sarasangi", "Harikambhoji", "Dheerasankarabharanam", "Naganandini",
       "Yagapriya", "Ragavardhani", "Gangeyabhushani", "Vagadheeswari", "Shulini", "Chalanata",
       "Salagam", "Jalarnavam", "Jhalavarali", "Navaneetam", "Pavani", "Raghupriya",
       "Gavambodhi", "Bhavapriya", "Shubhapantuvarali", "Shadvidamargini", "Suvarnangi", "Divyamani",
       "Dhavalambari", "Namanarayani", "Kamavardhani", "Ramapriya", "Gamanashrama", "Viswambari",
       "Shyamalangi", "Shanmukhapriya", "Simhendramadhyamam", "Hemavati", "Dharmavati", "Neetimati",
       "Kantamani", "Rishabhapriya", "Latangi", "Vachaspati", "Mechakalyani", "Chitrambari",
       "Sucharitra", "Jyotiswarupini", "Dhatuvardhani", "Nasikabhushani", "Kosalam", "Rasikapriya" >>

Min(a, b) == IF a <= b THEN a ELSE b

\* lines 71-79: Suddha Madhyama for raga_number <= 36, Prati Madhyama otherwise
Madhyama(n) ==
    IF n <= HalfMelakartas
    THEN [M |-> "M1", M_int |-> 5, adjusted_num |-> n]
    ELSE [M |-> "M2", M_int |-> 6, adjusted_num |-> n - HalfMelakartas]

\* line 82: (adjusted_num - 1) // 6 + 1, Python floor division
Chakra(adjusted_num) == ((adjusted_num - 1) \div 6) + 1

\* line 83: (adjusted_num - 1) % 6 + 1, Python modulo (never negative)
Position(adjusted_num) == ((adjusted_num - 1) % 6) + 1

GVariants == <<"G1", "G2", "G3">>

GVariantInts == <<3, 4, 4>>

\* lines 86-113: R and G from the chakra.  In line 87 and 91 the conditional
\* expression binds to the second tuple element only, so R is always 'R1'.
RG(chakra, position) ==
    IF chakra = 1 \/ chakra = 2
    THEN [R |-> "R1",
          G |-> IF position <= 3 THEN GVariants[position] ELSE GVariants[position - 3],
          R_int |-> 1,
          G_int |-> GVariantInts[Min(position - 1, 2) + 1]]
    ELSE IF chakra = 3
    THEN [R |-> "R2",
          G |-> IF position <= 3 THEN "G2" ELSE "G3",
          R_int |-> 2,
          G_int |-> IF position <= 3 THEN 4 ELSE 4]
    ELSE IF chakra = 4
    THEN [R |-> "R2", G |-> "G3", R_int |-> 2, G_int |-> 4]
    ELSE IF chakra = 5
    THEN [R |-> "R3", G |-> "G3", R_int |-> 3, G_int |-> 4]
    ELSE [R |-> "R3", G |-> "G3", R_int |-> 3, G_int |-> 4]

\* a slip in the last row of the D/N table: D3 given the offset of N3
DN_slip(position) ==
    IF position = 1 THEN [D |-> "D1", N |-> "N1", D_int |-> 8, N_int |-> 10]
    ELSE IF position = 2 THEN [D |-> "D1", N |-> "N2", D_int |-> 8, N_int |-> 11]
    ELSE IF position = 3 THEN [D |-> "D1", N |-> "N3", D_int |-> 8, N_int |-> 11]
    ELSE IF position = 4 THEN [D |-> "D2", N |-> "N2", D_int |-> 9, N_int |-> 11]
    ELSE IF position = 5 THEN [D |-> "D2", N |-> "N3", D_int |-> 9, N_int |-> 11]
    ELSE [D |-> "D3", N |-> "N3", D_int |-> 11, N_int |-> 11]

\* lines 116-133: D and N from the position within the chakra
DN(position) ==
    IF position = 1 THEN [D |-> "D1", N |-> "N1", D_int |-> 8, N_int |-> 10]
    ELSE IF position = 2 THEN [D |-> "D1", N |-> "N2", D_int |-> 8, N_int |-> 11]
    ELSE IF position = 3 THEN [D |-> "D1", N |-> "N3", D_int |-> 8, N_int |-> 11]
    ELSE IF position = 4 THEN [D |-> "D2", N |-> "N2", D_int |-> 9, N_int |-> 11]
    ELSE IF position = 5 THEN [D |-> "D2", N |-> "N3", D_int |-> 9, N_int |-> 11]
    ELSE [D |-> "D3", N |-> "N3", D_int |-> 10, N_int |-> 11]

\* lines 63-138
get_melakarta_structure(n) ==
    LET m == Madhyama(n)
        chakra == Chakra(m.adjusted_num)
        position == Position(m.adjusted_num)
        rg == RG(chakra, position)
        dn == DN(position)
    IN  [swaras |-> <<"S", rg.R, rg.G, m.M, "P", dn.D, dn.N>>,
         intervals |-> <<0, rg.R_int, rg.G_int, m.M_int, 7, dn.D_int, dn.N_int>>]

NoStructure == [swaras |-> <<>>, intervals |-> <<>>]

\* the arguments the rule engine is called with
CallNumbers == (1 - Margin)..(NumMelakartas + Margin)

NoDist == [counts |-> <<>>, total |-> 0]

DetIdle ==
    /\ pc = "idle"
    /\ f0 = <<>>
    /\ f0_clean = <<>>
    /\ tonic_hz = 0
    /\ tonic_outcome = "none"
    /\ swara_dist = NoDist
    /\ base_dist = NoDist
    /\ matches = <<>>
    /\ calls = <<>>
    /\ result = "none"

MelaInit ==
    /\ raga_number = 0
    /\ outcome = "none"
    /\ structure = NoStructure
    /\ gen_i = 1
    /\ melakartas = <<>>
    /\ DetIdle

\* a call get_melakarta_structure(n): no statement of lines 63-138 raises for
\* an integer argument, so every call returns
CallGetStructure ==
    \E n \in CallNumbers :
        /\ raga_number' = n
        /\ outcome' = "returned"
        /\ structure' = get_melakarta_structure(n)
        /\ UNCHANGED <<gen_i, melakartas>>
        /\ UNCHANGED detVars

\* one iteration of the loop of generate_all_melakartas (lines 145-153)
GenerateStep ==
    /\ gen_i <= NumMelakartas
    /\ LET name == MELAKARTA_NAMES[gen_i]
           s == get_melakarta_structure(gen_i)
           entry == [swaras |-> s.swaras, key_intervals |-> s.intervals,
                     description |-> ToString(gen_i) \o "th Melakarta raga"]
       IN  melakartas' = [k \in (DOMAIN melakartas) \cup {name} |->
                             IF k = name THEN entry ELSE melakartas[k]]
    /\ gen_i' = gen_i + 1
    /\ UNCHANGED <<raga_number, outcome, structure>>
    /\ UNCHANGED detVars

MelaNext == CallGetStructure \/ GenerateStep

SpecMelakarta == MelaInit /\ [][MelaNext]_vars



\* ------------------------------------------------------------------------
\* raga_detector.py
\* ------------------------------------------------------------------------

\* RAGA_PATTERNS in insertion order (a dict iterates in that order)
RAGA_PATTERNS ==
    << [name |-> "Mohanam",
        swaras |-> <<"S", "R2", "G3", "P", "D2">>,
        key_intervals |-> <<0, 2, 4, 7, 9>>,
        description |-> "Janya of Harikambhoji, all shuddha swaras"],
       [name |-> "Mayamalavagowla",
        swaras |-> <<"S", "R1", "G3", "M1", "P", "D1", "N3">>,
        key_intervals |-> <<0, 1, 4, 5, 7, 8, 11>>,
        description |-> "15th Melakarta, morning raga"],
       [name |-> "Shankarabharanam",
        swaras |-> <<"S", "R2", "G3", "M1", "P", "D2", "N3">>,
        key_intervals |-> <<0, 2, 4, 5, 7, 9, 11>>,
        description |-> "29th Melakarta, very common"],
       [name |-> "Kalyani",
        swaras |-> <<"S", "R2", "G3", "M2", "P", "D2", "N3">>,
        key_intervals |-> <<0, 2, 4, 6, 7, 9, 11>>,
        description |-> "65th Melakarta, auspicious raga"],
       [name |-> "Bhairavi",
        swaras |-> <<"S", "R1", "G2", "M1", "P", "D1", "N2">>,
        key_intervals |-> <<0, 1, 3, 5, 7, 8, 10>>,
        description |-> "20th Melakarta, evening raga"] >>

\* A frequency f is held as its distance in cents from a fixed reference
\* frequency, 1200 * log2(f / reference); doubling f adds 1200.
CentsPerOctave == 1200

CentsPerSemitone == 100

NumBins == 12

Pitches == {50 * k : k \in 0..MaxPitchStep}

Tonics == {25 * k : k \in 0..MaxTonicStep}

\* 0.0 Hz, which no distance in cents represents
ZeroHz == -1

Unvoiced == -2

RECURSIVE SumSeq(_)
SumSeq(q) == IF q = <<>> THEN 0 ELSE q[1] + SumSeq(Tail(q))

Max(a, b) == IF a >= b THEN a ELSE b

SeqMax(q) == CHOOSE m \in {q[k] : k \in DOMAIN q} : \A k \in DOMAIN q : q[k] <= m

SeqMin(q) == CHOOSE m \in {q[k] : k \in DOMAIN q} : \A k \in DOMAIN q : q[k] >= m

\* np.round(num / den): to the nearest integer, ties to the even one
RoundHalfEven(num, den) ==
    LET q == num \div den
        r == num % den
    IN  IF 2 * r < den THEN q
        ELSE IF 2 * r > den THEN q + 1
        ELSE IF q % 2 = 0 THEN q ELSE q + 1

\* np.bincount(values, minlength): entry b + 1 counts the occurrences of b
Bincount(values, minlength) ==
    LET n == IF values = <<>> THEN minlength ELSE Max(minlength, SeqMax(values) + 1)
    IN  [b \in 1..n |-> Cardinality({k \in DOMAIN values : values[k] = b - 1})]

\* line 85: 1200 * log2(f / tonic_hz)
Cents(f, tonic) == f - tonic

\* clamps into the octave instead of wrapping
Wrap_clamp(cents) ==
    IF cents < 0 THEN 0
    ELSE IF cents >= CentsPerOctave THEN CentsPerOctave - 1 ELSE cents

\* line 88: cents % 1200, Python modulo (never negative)
Wrap(cents) == cents % CentsPerOctave

\* the final "% 12" left out
Quantize_nomod(cents_wrapped) == RoundHalfEven(cents_wrapped, CentsPerSemitone)

\* line 91: np.round(cents_wrapped / 100).astype(int) % 12
Quantize(cents_wrapped) == RoundHalfEven(cents_wrapped, CentsPerSemitone) % NumBins

\* lines 82-97; the returned array is counts[b] / total, all NaN when total = 0
extract_swara_distribution(samples, tonic) ==
    LET semitones == [k \in DOMAIN samples |-> Quantize(Wrap(Cents(samples[k], tonic)))]
        counts == Bincount(semitones, NumBins)
    IN  [counts |-> counts, total |-> SumSeq(counts)]

\* lines 106-109: 1.0 at every key interval, divided by the sum
raga_profile(key_intervals) ==
    LET ones == [b \in 1..NumBins |->
                    IF \E k \in DOMAIN key_intervals : key_intervals[k] = b - 1 THEN 1 ELSE 0]
    IN  [counts |-> ones, total |-> SumSeq(ones)]

NaN == [nan |-> TRUE, num |-> 0, den2 |-> 0]

\* line 112: np.corrcoef(x, y)[0, 1], the Pearson coefficient num / sqrt(den2).
\* It does not change when x and y are scaled by positive factors, so it is
\* computed on the counts; a zero variance or a NaN input gives NaN.
corrcoef(x, y) ==
    IF x.total = 0 \/ y.total = 0 \/ Len(x.counts) # Len(y.counts) THEN NaN
    ELSE
    LET n == Len(x.counts)
        sx == SumSeq(x.counts)
        sy == SumSeq(y.counts)
        sxy == SumSeq([k \in 1..n |-> x.counts[k] * y.counts[k]])
        sxx == SumSeq([k \in 1..n |-> x.counts[k] * x.counts[k]])
        syy == SumSeq([k \in 1..n |-> y.counts[k] * y.counts[k]])
        vx == n * sxx - sx * sx
        vy == n * syy - sy * sy
    IN  IF vx = 0 \/ vy = 0 THEN NaN
        ELSE [nan |-> FALSE, num |-> n * sxy - sx * sy, den2 |-> vx * vy]

\* a > b for two coefficients; every comparison with NaN is false
ScoreGreater(a, b) ==
    /\ ~a.nan
    /\ ~b.nan
    /\ IF a.num >= 0 /\ b.num < 0 THEN TRUE
       ELSE IF a.num < 0 /\ b.num >= 0 THEN FALSE
       ELSE IF a.num >= 0 THEN a.num * a.num * b.den2 > b.num * b.num * a.den2
       ELSE a.num * a.num * b.den2 < b.num * b.num * a.den2

ScoreIsOne(a) == ~a.nan /\ a.num > 0 /\ a.num * a.num = a.den2

\* sorts ascending, "reverse=True" left out
Ranked_ascending(items) ==
    LET Before(i, j) == \/ ScoreGreater(items[j].score, items[i].score)
                        \/ (~ScoreGreater(items[i].score, items[j].score) /\ i < j)
        Rank(i) == 1 + Cardinality({j \in DOMAIN items : j # i /\ Before(j, i)})
    IN  [r \in DOMAIN items |-> items[CHOOSE i \in DOMAIN items : Rank(i) = r]]

\* line 116: sorted(scores.items(), key=score, reverse=True), a stable sort
Ranked(items) ==
    LET Before(i, j) == \/ ScoreGreater(items[i].score, items[j].score)
                        \/ (~ScoreGreater(items[j].score, items[i].score) /\ i < j)
        Rank(i) == 1 + Cardinality({j \in DOMAIN items : j # i /\ Before(j, i)})
    IN  [r \in DOMAIN items |-> items[CHOOSE i \in DOMAIN items : Rank(i) = r]]

\* lines 99-117
match_raga(dist) ==
    LET scores == [k \in DOMAIN RAGA_PATTERNS |->
                      [name |-> RAGA_PATTERNS[k].name,
                       score |-> corrcoef(dist, raga_profile(RAGA_PATTERNS[k].key_intervals))]]
    IN  Ranked(scores)

MelaIdle ==
    /\ raga_number = 0
    /\ outcome = "none"
    /\ structure = NoStructure
    /\ gen_i = 1
    /\ melakartas = <<>>

\* ---- match_raga called on an observed distribution ----------------------

\* equal weight w on the semitone classes of S
EqualWeight(S, w) ==
    [counts |-> [b \in 1..NumBins |-> IF (b - 1) \in S THEN w ELSE 0],
     total |-> w * Cardinality(S)]

ObservedDists ==
    {EqualWeight(S, w) : S \in (SUBSET (0..(NumBins - 1))) \ {{}}, w \in 1..MaxWeight}

MatchInit ==
    /\ MelaIdle
    /\ pc = "observed"
    /\ swara_dist \in ObservedDists
    /\ f0 = <<>>
    /\ f0_clean = <<>>
    /\ tonic_hz = 0
    /\ tonic_outcome = "none"
    /\ base_dist = NoDist
    /\ matches = <<>>
    /\ calls = <<>>
    /\ result = "none"

CallMatchRaga ==
    /\ pc = "observed"
    /\ matches' = match_raga(swara_dist)
    /\ calls' = Append(calls, "match_raga")
    /\ pc' = "matched"
    /\ UNCHANGED <<f0, f0_clean, tonic_hz, tonic_outcome, swara_dist, base_dist, result>>
    /\ UNCHANGED melaVars

MatchNext == CallMatchRaga

SpecMatch == MatchInit /\ [][MatchNext]_vars

\* two distributions with the same value in every bin
DistEq(x, y) ==
    /\ Len(x.counts) = Len(y.counts)
    /\ \A b \in DOMAIN x.counts : x.counts[b] * y.total = y.counts[b] * x.total

ProfileOf(k) == raga_profile(RAGA_PATTERNS[k].key_intervals)

IntervalSet(k) == {RAGA_PATTERNS[k].key_intervals[j] : j \in DOMAIN RAGA_PATTERNS[k].key_intervals}

\* C5: when the observed distribution equals the reference distribution of a
\* stored profile whose interval set no other profile shares, that profile
\* scores exactly 1, every other profile scores strictly less and it is first
\* in the ranking; equal weight on {0,2,4,5,7,9,11} ranks the 29th Melakarta
\* (Shankarabharanam) first with score 1.
C5_ExactProfileRanksFirst ==
    pc = "matched" =>
        /\ \A k \in DOMAIN RAGA_PATTERNS :
              ( /\ DistEq(swara_dist, ProfileOf(k))
                /\ \A j \in DOMAIN RAGA_PATTERNS : j # k => IntervalSet(j) # IntervalSet(k) )
              => /\ matches[1].name = RAGA_PATTERNS[k].name
                 /\ ScoreIsOne(matches[1].score)
                 /\ \A r \in 2..Len(matches) : ScoreGreater(matches[1].score, matches[r].score)
        /\ (\E w \in 1..MaxWeight : swara_dist = EqualWeight({0, 2, 4, 5, 7, 9, 11}, w))
              => /\ matches[1].name = "Shankarabharanam"
                 /\ RAGA_PATTERNS[3].name = "Shankarabharanam"
                 /\ RAGA_PATTERNS[3].description = "29th Melakarta, very common"
                 /\ ScoreIsOne(matches[1].score)

\* match_raga has ranked the major-scale distribution
C5_Witness ==
    /\ pc = "matched"
    /\ swara_dist = EqualWeight({0, 2, 4, 5, 7, 9, 11}, 1)
    /\ Len(matches) = 5
    /\ matches[1].name = "Shankarabharanam"

\* ---- find_tonic ---------------------------------------------------------

\* A left bin edge lies less than one bin width below the samples of its bin.
\* With the sample range of at most about an octave the width is at most about
\* 1/100 of the lowest sample, 1200 * log2(100 / 99) < 18 cents.
MaxEdgeOffset == 17

Occurrences(samples, v) == Cardinality({k \in DOMAIN samples : samples[k] = v})

\* np.histogram(f0_clean, bins=100) with np.argmax: samples 50 cents apart are
\* more than a bin width apart, so every distinct sample value has a bin of
\* its own, and argmax takes the first (lowest) of the fullest bins
ModalPitch(samples) ==
    LET vals == {samples[k] : k \in DOMAIN samples}
        fullest == {v \in vals : \A u \in vals : Occurrences(samples, u) <= Occurrences(samples, v)}
    IN  CHOOSE v \in fullest : \A u \in fullest : v <= u

\* lines 71-80: the possible ends of a call.  tonic_hz is the left edge of the
\* modal bin: the lowest sample itself for bin 0, else up to a bin width below
\* the modal pitch.  On an empty array np.histogram spans 0..1 with all counts
\* 0, so tonic_hz = bins[0] = 0.0; the print then calls librosa.hz_to_note(0.0),
\* which takes log2(0): the call either returns 0.0 or raises inside librosa.
find_tonic(samples) ==
    IF samples = <<>>
    THEN {[outcome |-> "returned", tonic |-> ZeroHz],
          [outcome |-> "raised", tonic |-> ZeroHz]}
    ELSE LET x == ModalPitch(samples)
             offsets == IF x = SeqMin(samples) THEN {0} ELSE 0..MaxEdgeOffset
         IN  {[outcome |-> "returned", tonic |-> x - d] : d \in offsets}

RECURSIVE SeqsUpTo(_, _)
SeqsUpTo(S, n) ==
    IF n = 0 THEN {<<>>}
    ELSE LET shorter == SeqsUpTo(S, n - 1)
         IN  shorter \cup {Append(q, v) : q \in {r \in shorter : Len(r) = n - 1}, v \in S}

\* ---- find_tonic and extract_swara_distribution called on samples --------

PitchInit ==
    /\ MelaIdle
    /\ pc = "input"
    /\ f0 = <<>>
    /\ f0_clean \in SeqsUpTo(Pitches, MaxSamples)
    /\ tonic_hz \in Tonics
    /\ tonic_outcome = "none"
    /\ swara_dist = NoDist
    /\ base_dist = NoDist
    /\ matches = <<>>
    /\ calls = <<>>
    /\ result = "none"

\* tonic_hz = find_tonic(f0_clean)
CallFindTonic ==
    /\ pc = "input"
    /\ calls = <<>>
    /\ \E r \in find_tonic(f0_clean) :
          /\ tonic_outcome' = r.outcome
          /\ tonic_hz' = IF r.outcome = "returned" THEN r.tonic ELSE tonic_hz
          /\ pc' = IF r.outcome = "returned" THEN "input" ELSE "raised"
    /\ calls' = Append(calls, "find_tonic")
    /\ UNCHANGED <<f0, f0_clean, swara_dist, base_dist, matches, result>>
    /\ UNCHANGED melaVars

\* swara_dist = extract_swara_distribution(f0_clean, tonic_hz)
CallProject ==
    /\ pc = "input"
    /\ swara_dist' = extract_swara_distribution(f0_clean, tonic_hz)
    /\ calls' = Append(calls, "extract_swara_distribution")
    /\ pc' = "projected"
    /\ UNCHANGED <<f0, f0_clean, tonic_hz, tonic_outcome, base_dist, matches, result>>
    /\ UNCHANGED melaVars

\* the caller doubles every sample (one octave up) and keeps the tonic
DoubleSamples ==
    /\ pc = "projected"
    /\ base_dist = NoDist
    /\ f0_clean' = [k \in DOMAIN f0_clean |-> f0_clean[k] + CentsPerOctave]
    /\ base_dist' = swara_dist
    /\ pc' = "input"
    /\ UNCHANGED <<f0, tonic_hz, tonic_outcome, swara_dist, matches, calls, result>>
    /\ UNCHANGED melaVars

PitchNext == CallFindTonic \/ CallProject \/ DoubleSamples

SpecPitch == PitchInit /\ [][PitchNext]_vars

\* C6: doubling every sample with the same tonic leaves the 12-bin
\* distribution of a non-empty sample sequence unchanged, bin by bin.
C6_OctaveInvariance ==
    (pc = "projected" /\ base_dist # NoDist /\ Len(f0_clean) > 0) =>
        DistEq(swara_dist, base_dist)

\* a doubled pair of samples, one of them in the top half-semitone of the
\* octave, has been projected again
C6_Witness ==
    /\ pc = "projected"
    /\ base_dist # NoDist
    /\ Len(f0_clean) = 2
    /\ f0_clean[1] # f0_clean[2]
    /\ \E k \in DOMAIN f0_clean : Wrap(Cents(f0_clean[k], tonic_hz)) >= 1150
    /\ f0_clean[1] >= CentsPerOctave

\* C7: for a non-empty sample sequence the projector returns exactly 12 bins
\* whose values sum to 1: every sample is counted in exactly one bin, also one
\* that rounds up to 12 semitones.
C7_TwelveBinsSumToOne ==
    (pc = "projected" /\ Len(f0_clean) > 0) =>
        /\ Len(swara_dist.counts) = NumBins
        /\ swara_dist.total > 0
        /\ SumSeq(swara_dist.counts) = swara_dist.total
        /\ SumSeq(swara_dist.counts) = Len(f0_clean)

\* a sample 1150 cents or more above the tonic has been counted in bin 0
C7_Witness ==
    /\ pc = "projected"
    /\ Len(f0_clean) = 1
    /\ Wrap(Cents(f0_clean[1], tonic_hz)) >= 1150
    /\ swara_dist.counts[1] = 1

\* C8: find_tonic called with no voiced samples raises EmptyInput and never
\* returns a frequency.
C8_EmptyInputRaised ==
    (tonic_outcome # "none" /\ f0_clean = <<>>) => tonic_outcome = "EmptyInput"

\* ---- analyze ------------------------------------------------------------

\* always false: the guard left out
NoPitchDetected_never(samples) == FALSE

\* line 157: len(f0_clean) == 0
NoPitchDetected(samples) == Len(samples) = 0

AnalyzeInit ==
    /\ MelaIdle
    /\ pc = "start"
    /\ f0 = <<>>
    /\ f0_clean = <<>>
    /\ tonic_hz = 0
    /\ tonic_outcome = "none"
    /\ swara_dist = NoDist
    /\ base_dist = NoDist
    /\ matches = <<>>
    /\ calls = <<>>
    /\ result = "none"

\* lines 54-69, 155: pyin gives one value per frame, unvoiced frames are dropped
ExtractPitch ==
    /\ pc = "start"
    /\ \E contour \in SeqsUpTo(Pitches \cup {Unvoiced}, MaxFrames) :
          /\ f0' = contour
          /\ f0_clean' = SelectSeq(contour, LAMBDA v : v # Unvoiced)
    /\ calls' = Append(calls, "extract_pitch")
    /\ pc' = "extracted"
    /\ UNCHANGED <<tonic_hz, tonic_outcome, swara_dist, base_dist, matches, result>>
    /\ UNCHANGED melaVars

\* lines 157-159: report the error and return None
NoPitch ==
    /\ pc = "extracted"
    /\ NoPitchDetected(f0_clean)
    /\ result' = "None"
    /\ pc' = "done"
    /\ UNCHANGED <<f0, f0_clean, tonic_hz, tonic_outcome, swara_dist, base_dist, matches, calls>>
    /\ UNCHANGED melaVars

\* line 162
AnalyzeFindTonic ==
    /\ pc = "extracted"
    /\ ~NoPitchDetected(f0_clean)
    /\ \E r \in find_tonic(f0_clean) :
          /\ tonic_outcome' = r.outcome
          /\ tonic_hz' = IF r.outcome = "returned" THEN r.tonic ELSE tonic_hz
          /\ pc' = IF r.outcome = "returned" THEN "tonic" ELSE "raised"
    /\ calls' = Append(calls, "find_tonic")
    /\ UNCHANGED <<f0, f0_clean, swara_dist, base_dist, matches, result>>
    /\ UNCHANGED melaVars

\* line 165
AnalyzeProject ==
    /\ pc = "tonic"
    /\ swara_dist' = extract_swara_distribution(f0_clean, tonic_hz)
    /\ calls' = Append(calls, "extract_swara_distribution")
    /\ pc' = "dist"
    /\ UNCHANGED <<f0, f0_clean, tonic_hz, tonic_outcome, base_dist, matches, result>>
    /\ UNCHANGED melaVars

\* line 168
AnalyzeMatch ==
    /\ pc = "dist"
    /\ matches' = match_raga(swara_dist)
    /\ calls' = Append(calls, "match_raga")
    /\ pc' = "matched"
    /\ UNCHANGED <<f0, f0_clean, tonic_hz, tonic_outcome, swara_dist, base_dist, result>>
    /\ UNCHANGED melaVars

\* lines 170-187: print the ranking (int() of a NaN percentage raises),
\* draw the plots and return the top match
ReportAndVisualize ==
    /\ pc = "matched"
    /\ IF \E r \in DOMAIN matches : matches[r].score.nan
       THEN /\ pc' = "raised"
            /\ UNCHANGED <<calls, result>>
       ELSE /\ calls' = Append(calls, "visualize")
            /\ result' = matches[1].name
            /\ pc' = "done"
    /\ UNCHANGED <<f0, f0_clean, tonic_hz, tonic_outcome, swara_dist, base_dist, matches>>
    /\ UNCHANGED melaVars

AnalyzeNext ==
    \/ ExtractPitch
    \/ NoPitch
    \/ AnalyzeFindTonic
    \/ AnalyzeProject
    \/ AnalyzeMatch
    \/ ReportAndVisualize

SpecAnalyze == AnalyzeInit /\ [][AnalyzeNext]_vars

LaterStages == {"find_tonic", "extract_swara_distribution", "match_raga", "visualize"}

\* C9: a run of analyze whose pitch extraction yields no voiced samples ends
\* in failure (None) without executing find_tonic, extract_swara_distribution,
\* match_raga or visualize; match_raga is executed only right after find_tonic
\* and extract_swara_distribution, in that order, on a non-empty sequence.
C9_NoMatchingWithoutDistribution ==
    /\ (pc # "start" /\ Len(f0_clean) = 0) =>
          /\ \A k \in DOMAIN calls : calls[k] \notin LaterStages
          /\ pc \in {"extracted", "done"}
          /\ (pc = "done" => result = "None")
    /\ \A k \in DOMAIN calls : calls[k] = "match_raga" =>
          /\ k >= 3
          /\ calls[k - 2] = "find_tonic"
          /\ calls[k - 1] = "extract_swara_distribution"
          /\ tonic_outcome = "returned"
          /\ Len(f0_clean) > 0
          /\ swara_dist = extract_swara_distribution(f0_clean, tonic_hz)

\* a run with no voiced frame has ended in failure
C9_Witness ==
    /\ pc = "done"
    /\ Len(f0) > 0
    /\ Len(f0_clean) = 0
    /\ result = "None"
    /\ calls = <<"extract_pitch">>

\* ------------------------------------------------------------------------
\* Properties of the rule engine (checked under SpecMelakarta)
\* ------------------------------------------------------------------------

Called(n) == outcome = "returned" /\ raga_number = n

OracleTable ==
    [n \in {15, 20, 28, 29, 65} |->
        IF n = 15 THEN [name |-> "Mayamalavagowla",
                        swaras |-> <<"S", "R1", "G3", "M1", "P", "D1", "N3">>,
                        intervals |-> <<0, 1, 4, 5, 7, 8, 11>>]
        ELSE IF n = 20 THEN [name |-> "Natabhairavi",
                        swaras |-> <<"S", "R2", "G2", "M1", "P", "D2", "N2">>,
                        intervals |-> <<0, 2, 3, 5, 7, 9, 10>>]
        ELSE IF n = 28 THEN [name |-> "Harikambhoji",
                        swaras |-> <<"S", "R2", "G3", "M1", "P", "D2", "N2">>,
                        intervals |-> <<0, 2, 4, 5, 7, 9, 10>>]
        ELSE IF n = 29 THEN [name |-> "Dheerasankarabharanam",
                        swaras |-> <<"S", "R2", "G3", "M1", "P", "D2", "N3">>,
                        intervals |-> <<0, 2, 4, 5, 7, 9, 11>>]
        ELSE [name |-> "Mechakalyani",
                        swaras |-> <<"S", "R2", "G3", "M2", "P", "D2", "N3">>,
                        intervals |-> <<0, 2, 4, 6, 7, 9, 11>>]]

\* C1: for each index of the oracle table {15, 20, 28, 29, 65}, the name
\* MELAKARTA_NAMES[i-1] and the structure returned by
\* get_melakarta_structure(i) are exactly the published triple.
C1_OracleReproduced ==
    \A n \in DOMAIN OracleTable :
        Called(n) =>
            /\ MELAKARTA_NAMES[n] = OracleTable[n].name
            /\ structure.swaras = OracleTable[n].swaras
            /\ structure.intervals = OracleTable[n].intervals

WellFormedIntervals(iv) ==
    /\ Len(iv) = 7
    /\ iv[1] = 0
    /\ \A k \in 1..(Len(iv) - 1) : iv[k] < iv[k + 1]
    /\ \A k \in 1..Len(iv) : iv[k] \in 0..11

\* C2: for every index in 1..72 the returned interval sequence has exactly
\* 7 elements, starts with 0, is strictly increasing and lies in 0..11.
C2_IntervalsWellFormed ==
    (outcome = "returned" /\ raga_number \in 1..NumMelakartas) =>
        WellFormedIntervals(structure.intervals)

\* a call with the last index of a chakra (position 6: D3, N3) has returned
C2_Witness == Called(36) /\ structure.intervals[6] = 10

\* C3: a call with an index outside 1..72 fails with a domain error and
\* returns no scale structure.
C3_DomainErrorOutside ==
    (outcome # "none" /\ raga_number \notin 1..NumMelakartas) =>
        (outcome = "DomainError" /\ structure = NoStructure)

Structures == {<<melakartas[k].swaras, melakartas[k].key_intervals>> : k \in DOMAIN melakartas}

\* C4: distinct indices give distinct (swara sequence, interval sequence)
\* pairs, so the entries generated so far are as many as their structures.
C4_IndexIdentifiesStructure ==
    Cardinality(Structures) = Cardinality(DOMAIN melakartas)

\* C10: a swara-variant label is paired with the same interval value in
\* every generated structure it appears in.
C10_LabelHasFixedOffset ==
    \A a, b \in DOMAIN melakartas : \A k, l \in 1..7 :
        melakartas[a].swaras[k] = melakartas[b].swaras[l] =>
            melakartas[a].key_intervals[k] = melakartas[b].key_intervals[l]

Init == AnalyzeInit

Next == AnalyzeNext

Spec == Init /\ [][Next]_vars

====
